---- MODULE Spec2Model ----
(***************************************************************************)
(* Trace Bank: risk aggregation -> policy decision -> counterfactual       *)
(* explanation.  The module models                                          *)
(*   - backend/policy_engine.py   (policy dict, update_policy,             *)
(*                                  decide_action),                         *)
(*   - backend/main.py            (change_policy handler),                  *)
(*   - backend/decision_engine.py (calculate_final_risk),                   *)
(*   - backend/counterfactual.py  (CounterfactualEngine).                   *)
(* Risk scores and thresholds are whole points unless a name says          *)
(* otherwise (a trailing 10 = tenths, 100 = hundredths of a point).         *)
(***************************************************************************)
EXTENDS Integers, Sequences, FiniteSets, TLC

VARIABLES
    policy,     \* policy_engine.policy: the three thresholds
    reply,      \* body returned by the last policy update (or POST /audit)
    decision,   \* outcome of the last decide_action call
    prev,       \* outcome of the decide_action call before it, when both ran
                \* under the policy now stored (NoDecision otherwise)
    op,         \* name of the operation that produced this state
    upd,        \* thread running update_policy: position and arguments
    old,        \* the triple that was stored when that update_policy began
    dec,        \* thread running decide_action: position, argument, result
    snap,       \* triples in force at some moment of the running decide_action
    agg,        \* arguments and result of the last calculate_final_risk call
    expl,       \* arguments and result of the last generate_counterfactuals call
    first,      \* what an earlier call with the arguments of expl returned
    churn,      \* arguments and result of the last calculate_churn_impact call
    pred,       \* ContinuousMLEngine: is_trained, and the last predict call
    AUDIT_LOG,  \* audit.AUDIT_LOG
    audit_logs, \* main.audit_logs
    sim,        \* outcome of the last POST /simulate
    listed,     \* the lists last returned by GET /audit (main) and get_audit_log (audit)
    thresholds, \* decision_engine: BLOCK_THRESHOLD and REVIEW_THRESHOLD
    wr          \* threads appending to the audit lists: position and records written

vars == <<policy, reply, decision, prev, op, upd, old, dec, snap, agg, expl,
          first, churn, pred, AUDIT_LOG, audit_logs, sim, listed, wr, thresholds>>

seqVars   == <<policy, reply, decision, prev, op>>
concVars  == <<upd, old, dec, snap>>
auditVars == <<AUDIT_LOG, audit_logs, sim, listed>>

-----------------------------------------------------------------------------
(* Values *)

\* Python's None, as an integer outside every number the model draws.
None == -999

IsNum(x) == x # None

\* Threshold values an administrator may send (None: the field is omitted).
ThresholdVals == {30, 40, 60, 85, 90, 110}
RequestVals   == ThresholdVals \cup {None}

\* Final risk scores handed to decide_action.
RiskVals == {0, 30, 40, 60, 85, 90}

Triple(low, review, block) ==
    [low_threshold |-> low, review_threshold |-> review, block_threshold |-> block]

\* The defaults with another block threshold.
DefaultPolicyBlock90 == Triple(30, 60, 90)

\* policy_engine.py, lines 1-5.
DefaultPolicy == Triple(30, 60, 85)

\* Bodies of POST /policy/update: data.get(key) is None for a missing key.
PolicyRequests ==
    [low_threshold : RequestVals, review_threshold : RequestVals,
     block_threshold : RequestVals]

NoDecision == [final_risk |-> None, action |-> "none"]

AllNum(p) ==
    IsNum(p.low_threshold) /\ IsNum(p.review_threshold) /\ IsNum(p.block_threshold)

-----------------------------------------------------------------------------
(* policy_engine.py *)

\* update_policy(low, review, block): three unconditional stores.
update_policy(p, low, review, block) ==
    [p EXCEPT !.low_threshold = low,
              !.review_threshold = review,
              !.block_threshold = block]

\* Geq with > in place of >=.
GeqStrict(risk_score, threshold) ==
    IF IsNum(threshold) THEN (IF risk_score > threshold THEN "true" ELSE "false")
    ELSE "TypeError"

\* risk_score >= threshold; Python 3 raises TypeError when the threshold is None.
Geq(risk_score, threshold) ==
    IF IsNum(threshold) THEN (IF risk_score >= threshold THEN "true" ELSE "false")
    ELSE "TypeError"

\* decide_action with the labels of the two middle branches exchanged.
decide_action_swapped(p, risk_score) ==
    LET b == Geq(risk_score, p.block_threshold)
        r == Geq(risk_score, p.review_threshold)
        l == Geq(risk_score, p.low_threshold)
    IN  IF b = "TypeError" THEN "TypeError"
        ELSE IF b = "true" THEN "CRITICAL_FRAUD"
        ELSE IF r = "TypeError" THEN "TypeError"
        ELSE IF r = "true" THEN "REVIEW"
        ELSE IF l = "TypeError" THEN "TypeError"
        ELSE IF l = "true" THEN "BLOCK"
        ELSE "APPROVED"

\* decide_action(risk_score) evaluated against the thresholds p.
decide_action(p, risk_score) ==
    LET b == Geq(risk_score, p.block_threshold)
        r == Geq(risk_score, p.review_threshold)
        l == Geq(risk_score, p.low_threshold)
    IN  IF b = "TypeError" THEN "TypeError"
        ELSE IF b = "true" THEN "CRITICAL_FRAUD"
        ELSE IF r = "TypeError" THEN "TypeError"
        ELSE IF r = "true" THEN "BLOCK"
        ELSE IF l = "TypeError" THEN "TypeError"
        ELSE IF l = "true" THEN "REVIEW"
        ELSE "APPROVED"

-----------------------------------------------------------------------------
(* Initial state *)

\* The stores and threads at startup, no call made yet.
\* Request threads writing to the audit lists: the first two through
\* audit.log_decision, the other two through POST /audit.
LogWriters  == {1, 2}
SaveWriters == {3, 4}
Writers     == LogWriters \cup SaveWriters

InitStore ==
    /\ policy = DefaultPolicy
    /\ reply = [message |-> "none", policy |-> DefaultPolicy]
    /\ decision = NoDecision
    /\ prev = NoDecision
    /\ op = "init"
    /\ upd = [pc |-> "idle", calls |-> 0, low |-> DefaultPolicy.low_threshold,
              review |-> DefaultPolicy.review_threshold,
              block |-> DefaultPolicy.block_threshold]
    /\ old = DefaultPolicy
    /\ dec = [pc |-> "idle", risk_score |-> 0, result |-> "none"]
    /\ snap = {}
    /\ agg = [status |-> "none"]
    /\ first = [status |-> "none"]
    /\ churn = [status |-> "none"]
    /\ pred = [is_trained |-> TRUE, status |-> "none"]
    /\ AUDIT_LOG = <<>>
    /\ audit_logs = <<>>
    /\ sim = [status |-> "none", at |-> "none"]
    /\ listed = [main |-> <<>>, audit |-> <<>>]
    /\ thresholds = [BLOCK_THRESHOLD |-> 80, REVIEW_THRESHOLD |-> 50]
    /\ wr = [w \in Writers |-> [pc |-> "idle", n |-> 0, total |-> 0]]

Init ==
    /\ InitStore
    /\ expl = [status |-> "none"]

-----------------------------------------------------------------------------
(* Sequential calls: each handler runs to completion *)

\* main.py change_policy: reads the three fields, calls update_policy, and
\* answers "Policy updated successfully" with the requested triple.
change_policy(data) ==
    LET low    == data.low_threshold
        review == data.review_threshold
        block  == data.block_threshold
    IN  /\ policy' = update_policy(policy, low, review, block)
        /\ reply' = [message |-> "Policy updated successfully",
                     policy |-> Triple(low, review, block)]
        /\ prev' = NoDecision
        /\ op' = "change_policy"
        /\ UNCHANGED decision

\* A call decide_action(risk_score) by any caller.
Decide(risk_score) ==
    /\ decision' = [final_risk |-> risk_score,
                    action |-> decide_action(policy, risk_score)]
    /\ prev' = IF op = "decide_action" THEN decision ELSE NoDecision
    /\ op' = "decide_action"
    /\ UNCHANGED <<policy, reply>>

Next ==
    \/ \E data \in PolicyRequests :
          change_policy(data) /\ UNCHANGED <<concVars, agg, expl, first, churn, pred, auditVars, wr, thresholds>>
    \/ \E r \in RiskVals :
          Decide(r) /\ UNCHANGED <<concVars, agg, expl, first, churn, pred, auditVars, wr, thresholds>>

Spec == Init /\ [][Next]_vars

-----------------------------------------------------------------------------
(* Concurrent calls: the handlers run on worker threads, and a thread switch  *)
(* can fall between any two accesses of the policy dict.                      *)

\* Number of update_policy calls in one run.
MaxUpdates == 2

ConcVals == {30, 40, 85}

\* The updates sent in the concurrent runs: every ordered triple of ConcVals.
ConcRequests ==
    {d \in [low_threshold : ConcVals, review_threshold : ConcVals,
            block_threshold : ConcVals] :
        d.low_threshold <= d.review_threshold
        /\ d.review_threshold <= d.block_threshold}

ConcRisks == {0, 40, 85}

NewOf(u) == Triple(u.low, u.review, u.block)

Updating == upd.pc # "idle"
Deciding == dec.pc \in {"cmp_block", "cmp_review", "cmp_low"}

\* change_policy entered: the arguments are bound, nothing is stored yet.
UpdBegin(data) ==
    /\ upd.pc = "idle"
    /\ upd.calls < MaxUpdates
    /\ upd' = [pc |-> "set_low", calls |-> upd.calls + 1,
               low |-> data.low_threshold, review |-> data.review_threshold,
               block |-> data.block_threshold]
    /\ old' = policy
    /\ snap' = IF Deciding THEN snap \cup {data} ELSE snap
    /\ UNCHANGED <<policy, dec>>

\* policy["low_threshold"] = low
UpdSetLow ==
    /\ upd.pc = "set_low"
    /\ policy' = [policy EXCEPT !.low_threshold = upd.low]
    /\ upd' = [upd EXCEPT !.pc = "set_review"]
    /\ UNCHANGED <<old, dec, snap>>

\* policy["review_threshold"] = review
UpdSetReview ==
    /\ upd.pc = "set_review"
    /\ policy' = [policy EXCEPT !.review_threshold = upd.review]
    /\ upd' = [upd EXCEPT !.pc = "set_block"]
    /\ UNCHANGED <<old, dec, snap>>

\* policy["block_threshold"] = block, and the call returns
UpdSetBlock ==
    /\ upd.pc = "set_block"
    /\ policy' = [policy EXCEPT !.block_threshold = upd.block]
    /\ upd' = [upd EXCEPT !.pc = "idle"]
    /\ UNCHANGED <<old, dec, snap>>

\* decide_action(risk_score) entered
DecBegin(risk_score) ==
    /\ dec.pc \in {"idle", "done"}
    /\ dec' = [pc |-> "cmp_block", risk_score |-> risk_score, result |-> "none"]
    /\ snap' = IF Updating THEN {old, NewOf(upd)} ELSE {policy}
    /\ UNCHANGED <<policy, upd, old>>

\* One branch test of decide_action: a single read of policy[key].
DecCmp(at, key, action, next) ==
    /\ dec.pc = at
    /\ LET c == Geq(dec.risk_score, policy[key])
       IN  dec' = IF c = "TypeError" THEN [dec EXCEPT !.pc = "done", !.result = "TypeError"]
                  ELSE IF c = "true" THEN [dec EXCEPT !.pc = "done", !.result = action]
                  ELSE IF next = "done" THEN [dec EXCEPT !.pc = "done", !.result = "APPROVED"]
                  ELSE [dec EXCEPT !.pc = next]
    /\ UNCHANGED <<policy, upd, old, snap>>

DecCmpBlock  == DecCmp("cmp_block", "block_threshold", "CRITICAL_FRAUD", "cmp_review")
DecCmpReview == DecCmp("cmp_review", "review_threshold", "BLOCK", "cmp_low")
DecCmpLow    == DecCmp("cmp_low", "low_threshold", "REVIEW", "done")

ConcNext ==
    \/ \E data \in ConcRequests :
          UpdBegin(data) /\ UNCHANGED <<reply, decision, prev, op, agg, expl, first, churn, pred, auditVars, wr, thresholds>>
    \/ UpdSetLow /\ UNCHANGED <<reply, decision, prev, op, agg, expl, first, churn, pred, auditVars, wr, thresholds>>
    \/ UpdSetReview /\ UNCHANGED <<reply, decision, prev, op, agg, expl, first, churn, pred, auditVars, wr, thresholds>>
    \/ UpdSetBlock /\ UNCHANGED <<reply, decision, prev, op, agg, expl, first, churn, pred, auditVars, wr, thresholds>>
    \/ \E r \in ConcRisks :
          DecBegin(r) /\ UNCHANGED <<reply, decision, prev, op, agg, expl, first, churn, pred, auditVars, wr, thresholds>>
    \/ DecCmpBlock /\ UNCHANGED <<reply, decision, prev, op, agg, expl, first, churn, pred, auditVars, wr, thresholds>>
    \/ DecCmpReview /\ UNCHANGED <<reply, decision, prev, op, agg, expl, first, churn, pred, auditVars, wr, thresholds>>
    \/ DecCmpLow /\ UNCHANGED <<reply, decision, prev, op, agg, expl, first, churn, pred, auditVars, wr, thresholds>>

SpecConc == Init /\ [][ConcNext]_vars

\* C3: an update is one atomic swap: while update_policy runs, the stored
\* triple (what a concurrent reader sees) is the old policy or the new one,
\* never a mix of the two.
C3_NoTornTriple ==
    Updating => policy \in {old, NewOf(upd)}

\* C4: a decide_action call that overlaps updates returns the action of its
\* score under the whole of one policy that was in force during the call.
C4_ConsistentSnapshot ==
    dec.pc = "done" =>
        dec.result \in {decide_action(p, dec.risk_score) : p \in snap}

-----------------------------------------------------------------------------
(* decision_engine.py: calculate_final_risk.  Arguments and result are in    *)
(* hundredths of a point.                                                     *)

\* Group risks handed to calculate_final_risk: negative, zero, fractional,
\* at a cap, at 100 and above every cap.
AggVals100 == {-5000, 0, 1005, 7500, 10000, 30000}

\* round(x, 2) of x = n / 10000 points, in hundredths.  A decimal tie is not
\* a binary tie once the products are floats, so either neighbour can result.
Round2(n) ==
    LET q == n \div 100
        m == n % 100
    IN  IF m < 50 THEN {q}
        ELSE IF m > 50 THEN {q + 1}
        ELSE {q, q + 1}

\* round(0.4 * txn_risk + 0.3 * behavioural_risk + 0.3 * fraud_ring_risk, 2)
calculate_final_risk(txn_risk, behavioural_risk, fraud_ring_risk) ==
    Round2(40 * txn_risk + 30 * behavioural_risk + 30 * fraud_ring_risk)

\* A call of calculate_final_risk by any caller.
Aggregate(txn_risk, behavioural_risk, fraud_ring_risk) ==
    \E result \in calculate_final_risk(txn_risk, behavioural_risk, fraud_ring_risk) :
        agg' = [status |-> "ok", txn_risk |-> txn_risk,
                behavioural_risk |-> behavioural_risk,
                fraud_ring_risk |-> fraud_ring_risk, result |-> result]

AggNext ==
    \E t \in AggVals100, b \in AggVals100, f \in AggVals100 :
        Aggregate(t, b, f) /\ UNCHANGED <<seqVars, concVars, expl, first, churn, pred, auditVars, wr, thresholds>>

SpecAgg == Init /\ [][AggNext]_vars

\* C8: for all inputs, also above the caps or negative, the result of
\* calculate_final_risk lies in [0,100].
C8_FinalRiskBounded ==
    agg.status = "ok" => (0 <= agg.result /\ agg.result <= 10000)

-----------------------------------------------------------------------------
(* counterfactual.py: CounterfactualEngine.  Category risks and the risk     *)
(* score are whole points; a field ending in 10 is in tenths of a point, as   *)
(* the ":.1f" texts print it.                                                 *)

\* Longest user_history drawn.
MaxHist == 2

\* The branch threshold read from the policy store instead.
decision_threshold_policy == policy.low_threshold

\* self.decision_threshold
decision_threshold == 60

\* user_history[-10:]
HistWindow == 10

ExplRisks   == {40, 59, 60, 85}
TxAmounts   == {0, 1000, 4000}
HistAmounts == {0, 1000}

\* risk_breakdown: values on both sides of every threshold of the engine.
Breakdowns ==
    [amount : {0, 5, 10}, location : {0, 6, 11}, behavior : {0, 6, 9},
     merchant : {0, 6}, velocity : {0, 3, 4}]

Histories == UNION {[1..n -> HistAmounts] : n \in 0..MaxHist}

Min(a, b) == IF a < b THEN a ELSE b
Max(a, b) == IF a > b THEN a ELSE b

\* lst[:n] without the cut.
TakeAll(lst, n) == lst

\* lst[:n]
Take(lst, n) == SubSeq(lst, 1, Min(n, Len(lst)))

\* lst[-n:] without the cut.
LastAll(lst, n) == lst

\* lst[-n:]
Last(lst, n) == SubSeq(lst, Max(1, Len(lst) - n + 1), Len(lst))

RECURSIVE Sum(_)
Sum(lst) == IF lst = <<>> THEN 0 ELSE Head(lst) + Sum(Tail(lst))

\* [x for x in lst if x > 0]
RECURSIVE Positive(_)
Positive(lst) ==
    IF lst = <<>> THEN <<>>
    ELSE (IF Head(lst) > 0 THEN <<Head(lst)>> ELSE <<>>) \o Positive(Tail(lst))

When(cond, entry) == IF cond THEN <<entry>> ELSE <<>>

AmountSuggestion ==
    [type |-> "amount", title |-> "Reduce Transaction Amount",
     suggestion |-> "Try a smaller amount or split into multiple transactions"]

LocationSuggestion ==
    [type |-> "location", title |-> "Check Your Connection",
     suggestion |-> "Turn off VPN or proxy if enabled and retry"]

BehaviorSuggestion ==
    [type |-> "behavior", title |-> "Use a Familiar Device",
     suggestion |-> "Try again from your usual device or browser"]

ContactSupport ==
    [type |-> "contact", title |-> "Contact Support",
     suggestion |-> "Please contact our support team for assistance"]

\* The customer view with the amount risk quoted in its first suggestion.
generate_decline_counterfactuals_customer_leak(risk_breakdown) ==
    LET suggestions ==
            When(risk_breakdown.amount > 5,
                 [type |-> "amount", title |-> "Reduce Transaction Amount",
                  suggestion |-> "Try a smaller amount or split into multiple transactions",
                  risk |-> risk_breakdown.amount])
            \o When(risk_breakdown.location > 10, LocationSuggestion)
            \o When(risk_breakdown.behavior > 8, BehaviorSuggestion)
    IN  IF suggestions # <<>> THEN Take(suggestions, 2) ELSE <<ContactSupport>>

\* The customer view with the bank's location threshold (> 5).
generate_decline_counterfactuals_customer_loc5(risk_breakdown) ==
    LET suggestions ==
            When(risk_breakdown.amount > 5, AmountSuggestion)
            \o When(risk_breakdown.location > 5, LocationSuggestion)
            \o When(risk_breakdown.behavior > 8, BehaviorSuggestion)
    IN  IF suggestions # <<>> THEN Take(suggestions, 2) ELSE <<ContactSupport>>

\* _generate_decline_counterfactuals_customer
generate_decline_counterfactuals_customer(risk_breakdown) ==
    LET suggestions ==
            When(risk_breakdown.amount > 5, AmountSuggestion)
            \o When(risk_breakdown.location > 10, LocationSuggestion)
            \o When(risk_breakdown.behavior > 8, BehaviorSuggestion)
    IN  IF suggestions # <<>> THEN Take(suggestions, 2) ELSE <<ContactSupport>>

\* _find_optimal_amount, as the fraction num / den
find_optimal_amount(current_amount, user_history) ==
    IF user_history = <<>> THEN [num |-> current_amount * 5, den |-> 10]
    ELSE LET amounts == Positive(Last(user_history, HistWindow))
         IN  IF amounts # <<>>
             THEN [num |-> Sum(amounts) * 3, den |-> Len(amounts) * 2]
             ELSE [num |-> current_amount * 6, den |-> 10]

\* A bank counterfactual whose post-change score is risk_score - impact.
BankEntryUnclamped(type, title, risk, current_risk, tenths, risk_score, confidence) ==
    [type |-> type, title |-> title, contribution |-> risk,
     current_risk |-> current_risk,
     impact10 |-> risk * tenths,
     from10 |-> risk_score * 10,
     to10 |-> risk_score * 10 - risk * tenths,
     confidence |-> confidence]

\* One bank counterfactual.  contribution: the category risk quoted in the
\* explanation text; current_risk: the risk quoted in 'current' (None when
\* that text quotes none); impact10, from10, to10: the three numbers of
\* 'impact', with impact = risk * tenths / 10.
BankEntry(type, title, risk, current_risk, tenths, risk_score, confidence) ==
    [type |-> type, title |-> title, contribution |-> risk,
     current_risk |-> current_risk,
     impact10 |-> risk * tenths,
     from10 |-> risk_score * 10,
     to10 |-> Max(0, risk_score * 10 - risk * tenths),
     confidence |-> confidence]

\* The amount block divides by transaction['amount'].
bank_raises(transaction, risk_breakdown) ==
    risk_breakdown.amount > 5 /\ transaction.amount = 0

\* _generate_decline_counterfactuals_bank, where it does not raise
generate_decline_counterfactuals_bank(transaction, risk_breakdown, user_history, risk_score) ==
    LET counterfactuals ==
            When(risk_breakdown.amount > 5,
                 BankEntry("amount", "High-Value Transaction Detected",
                           risk_breakdown.amount, risk_breakdown.amount, 7,
                           risk_score, 95)
                 @@ [optimal_amount |->
                        find_optimal_amount(transaction.amount, user_history)])
            \o When(risk_breakdown.location > 5,
                 BankEntry("location", "VPN/Proxy Detection - Geolocation Risk",
                           risk_breakdown.location, None, 8, risk_score, 92))
            \o When(risk_breakdown.behavior > 5,
                 BankEntry("behavior", "Behavioral Anomaly Detected",
                           risk_breakdown.behavior, risk_breakdown.merchant, 6,
                           risk_score, 85))
            \o When(risk_breakdown.merchant > 5,
                 BankEntry("merchant", "High-Risk Merchant Category",
                           risk_breakdown.merchant, risk_breakdown.merchant, 6,
                           risk_score, 88))
            \o When(risk_breakdown.velocity > 3,
                 BankEntry("velocity", "Transaction Velocity Spike",
                           risk_breakdown.velocity, risk_breakdown.velocity, 5,
                           risk_score, 79))
    IN  IF counterfactuals # <<>> THEN Take(counterfactuals, 4) ELSE <<>>

\* _generate_approval_explanations_customer
generate_approval_explanations_customer ==
    <<[type |-> "approval", title |-> "Transaction Approved",
       message |-> "Your transaction has been processed successfully."]>>

\* _generate_approval_explanations_bank
generate_approval_explanations_bank(risk_breakdown) ==
    LET factors ==
            When(risk_breakdown.amount < 5, "Amount is within normal spending range")
            \o When(risk_breakdown.location < 5, "Location matches device history")
            \o When(risk_breakdown.behavior < 5, "Behavior matches typical patterns")
            \o When(risk_breakdown.merchant < 5, "Merchant is in typical categories")
        positive_factors ==
            IF factors # <<>> THEN factors
            ELSE <<"Transaction matches user profile", "No suspicious patterns detected">>
    IN  <<[type |-> "approval", title |-> "Transaction Approved",
           explanation |-> "Risk analysis complete",
           confidence |-> 100 - (risk_breakdown.amount + risk_breakdown.location
                                 + risk_breakdown.behavior + risk_breakdown.merchant
                                 + risk_breakdown.velocity),
           positive_factors |-> positive_factors,
           message |-> "Transaction processed successfully."]>>

\* A pending call generate_counterfactuals(transaction, risk_score,
\* risk_breakdown, user_history).
Call(transaction, risk_score, risk_breakdown, user_history) ==
    [status |-> "call", transaction |-> transaction, risk_score |-> risk_score,
     risk_breakdown |-> risk_breakdown, user_history |-> user_history,
     branch |-> "none", customer |-> <<>>, bank |-> <<>>]

ExplInit ==
    /\ InitStore
    /\ \E a \in TxAmounts, r \in ExplRisks, rb \in Breakdowns, h \in Histories :
          expl = Call([amount |-> a], r, rb, h)

\* generate_counterfactuals reversing the caller's user_history list in place.
generate_counterfactuals_in_place ==
    /\ expl.status = "call"
    /\ expl' =
        [user_history |->
            [i \in 1..Len(expl.user_history) |->
                expl.user_history[Len(expl.user_history) + 1 - i]]]
        @@
          IF expl.risk_score < decision_threshold
          THEN [expl EXCEPT !.status = "ok", !.branch = "approval",
                   !.customer = generate_approval_explanations_customer,
                   !.bank = generate_approval_explanations_bank(expl.risk_breakdown)]
          ELSE IF bank_raises(expl.transaction, expl.risk_breakdown)
          THEN [expl EXCEPT !.status = "ZeroDivisionError", !.branch = "decline"]
          ELSE [expl EXCEPT !.status = "ok", !.branch = "decline",
                   !.customer =
                       generate_decline_counterfactuals_customer(expl.risk_breakdown),
                   !.bank =
                       generate_decline_counterfactuals_bank(
                           expl.transaction, expl.risk_breakdown,
                           expl.user_history, expl.risk_score)]
    /\ op' = "generate_counterfactuals"
    /\ UNCHANGED <<policy, reply, decision, prev, first>>

\* generate_counterfactuals: the customer view is built first, then the bank
\* view; an exception in either leaves the caller without a result.
generate_counterfactuals ==
    /\ expl.status = "call"
    /\ expl' =
          IF expl.risk_score < decision_threshold
          THEN [expl EXCEPT !.status = "ok", !.branch = "approval",
                   !.customer = generate_approval_explanations_customer,
                   !.bank = generate_approval_explanations_bank(expl.risk_breakdown)]
          ELSE IF bank_raises(expl.transaction, expl.risk_breakdown)
          THEN [expl EXCEPT !.status = "ZeroDivisionError", !.branch = "decline"]
          ELSE [expl EXCEPT !.status = "ok", !.branch = "decline",
                   !.customer =
                       generate_decline_counterfactuals_customer(expl.risk_breakdown),
                   !.bank =
                       generate_decline_counterfactuals_bank(
                           expl.transaction, expl.risk_breakdown,
                           expl.user_history, expl.risk_score)]
    /\ op' = "generate_counterfactuals"
    /\ UNCHANGED <<policy, reply, decision, prev, first>>

\* The caller keeps what the call returned (or raised) and calls
\* generate_counterfactuals once more with the same arguments.
call_again ==
    /\ expl.status \notin {"none", "call"}
    /\ first.status = "none"
    /\ first' = [status |-> expl.status, customer |-> expl.customer,
                 bank |-> expl.bank]
    /\ expl' = Call(expl.transaction, expl.risk_score, expl.risk_breakdown,
                    expl.user_history)
    /\ op' = "call_again"
    /\ UNCHANGED <<policy, reply, decision, prev>>

\* Policy updates sent while explanations are requested.
ExplRequests ==
    {Triple(40, 40, 60), Triple(40, 60, 60), Triple(60, 60, 85), Triple(60, 85, 85)}

ExplNext ==
    \/ \E data \in ExplRequests :
          change_policy(data) /\ UNCHANGED <<concVars, agg, expl, first, churn, pred, auditVars, wr, thresholds>>
    \/ generate_counterfactuals /\ UNCHANGED <<concVars, agg, churn, pred, auditVars, wr, thresholds>>
    \/ call_again /\ UNCHANGED <<concVars, agg, churn, pred, auditVars, wr, thresholds>>

SpecExplain == ExplInit /\ [][ExplNext]_vars

\* Explanations requested for breakdowns with every category at zero or at
\* its design cap (amount 50, location 25, behavior 15, merchant 15,
\* velocity 10), and the amount risk also at twice its cap, with a risk score
\* on either side of the decision threshold.
CapBreakdowns ==
    [amount : {0, 50, 100}, location : {0, 25}, behavior : {0, 15},
     merchant : {0, 15}, velocity : {0, 10}]

CapInit ==
    /\ InitStore
    /\ \E r \in {40, 60}, rb \in CapBreakdowns :
          expl = Call([amount |-> 1000], r, rb, <<1000>>)

SpecCaps == CapInit /\ [][ExplNext]_vars

\* Explanations of an amount decline requested with no history, one entry,
\* and a history longer than the window of _find_optimal_amount.
MaxLongHist == 11

LongAmounts   == {0, 1000, 3000}
LongHistories == UNION {[1..n -> LongAmounts] : n \in {0, 1, MaxLongHist}}

LongInit ==
    /\ InitStore
    /\ \E h \in LongHistories :
          expl = Call([amount |-> 4000], 60,
                      [amount |-> 10, location |-> 0, behavior |-> 0,
                       merchant |-> 0, velocity |-> 0], h)

LongNext ==
    generate_counterfactuals
    /\ UNCHANGED <<concVars, agg, churn, pred, auditVars, wr, thresholds>>

SpecLong == LongInit /\ [][LongNext]_vars

\* Some category exceeds its bank threshold.
BankMentions(rb) ==
    \/ rb.amount > 5 \/ rb.location > 5 \/ rb.behavior > 5
    \/ rb.merchant > 5 \/ rb.velocity > 3

\* The customer suggestions: fixed texts, no number in any field.
CustomerTemplates ==
    {AmountSuggestion, LocationSuggestion, BehaviorSuggestion, ContactSupport}

NumberFree(customer) ==
    \A i \in DOMAIN customer : customer[i] \in CustomerTemplates

\* Every bank entry quotes the risk of its category and the risk score.
QuotesRisks(bank, rb, risk_score) ==
    \A i \in DOMAIN bank :
        /\ bank[i].contribution = rb[bank[i].type]
        /\ bank[i].from10 = risk_score * 10

\* C9: generate_counterfactuals takes the decline branch exactly when the
\* risk score is >= the stored low threshold, so every score decide_action
\* maps to REVIEW, BLOCK or CRITICAL_FRAUD gets decline counterfactuals and
\* only APPROVED scores get the approval explanation.
C9_BranchFollowsPolicy ==
    (op = "generate_counterfactuals") =>
        /\ (expl.branch = "decline") <=> (expl.risk_score >= policy.low_threshold)
        /\ (expl.branch = "approval") <=>
               (decide_action(policy, expl.risk_score) = "APPROVED")

\* C10, as claimed: on the decline branch the customer explanation holds no
\* risk number, and the bank explanation for the same input always holds
\* component-risk values.
C10_BankAlwaysQuotes ==
    (expl.status # "call" /\ expl.risk_score >= decision_threshold) =>
        /\ NumberFree(expl.customer)
        /\ expl.bank # <<>>
        /\ QuotesRisks(expl.bank, expl.risk_breakdown, expl.risk_score)

\* C10, amended: on the decline branch no customer entry holds a risk number;
\* every bank entry quotes its category's risk and the risk score; the bank
\* explanation has an entry exactly when some category exceeds its bank
\* threshold, except that nothing is returned (ZeroDivisionError) when the
\* amount risk is above 5 and the transaction amount is 0.
C10_Redaction ==
    (expl.status # "call" /\ expl.risk_score >= decision_threshold) =>
        /\ NumberFree(expl.customer)
        /\ QuotesRisks(expl.bank, expl.risk_breakdown, expl.risk_score)
        /\ (expl.status = "ZeroDivisionError") <=>
               (expl.risk_breakdown.amount > 5 /\ expl.transaction.amount = 0)
        /\ (expl.status = "ok") =>
               /\ expl.customer # <<>>
               /\ (expl.bank # <<>>) <=> BankMentions(expl.risk_breakdown)

\* A decline explanation with customer suggestions and bank entries.
C10_Witness ==
    /\ expl.status = "ok"
    /\ expl.branch = "decline"
    /\ Len(expl.customer) = 2
    /\ Len(expl.bank) = 4
    /\ expl.risk_breakdown.amount > 5

-----------------------------------------------------------------------------
(* counterfactual.py: calculate_churn_impact.  risk_score is in whole points, *)
(* churn_probability10 and retention_score10 in tenths of a percent, as the   *)
(* ":.1f" texts print them; revenue_at_risk is the ":,.0f" integer.           *)

ChurnDecisions == {"APPROVED", "REVIEW", "BLOCK", "CRITICAL_FRAUD", "DECLINED"}
ChurnRisks     == {0, 30, 40, 41, 85, 100, 120}
UserValues     == {101, 250, 1000}

\* n / d rounded to an integer (d > 0); on a decimal tie the float product
\* can fall on either side.
RoundDiv(n, d) ==
    LET q == n \div d
        m == n % d
    IN  IF 2 * m < d THEN {q}
        ELSE IF 2 * m > d THEN {q + 1}
        ELSE {q, q + 1}

\* calculate_churn_impact(decision, risk_score, user_value): the results it
\* can return.  churn_probability = min(0.5, risk_score / 100 * 0.5) is
\* 5 * risk_score tenths of a percent, capped at 500.
calculate_churn_impact(decision_str, risk_score, user_value) ==
    LET churn10 == IF decision_str = "DECLINED" THEN Min(500, 5 * risk_score)
                   ELSE 20
        revenues == IF decision_str = "DECLINED"
                    THEN RoundDiv(churn10 * user_value, 1000)
                    ELSE {0}
    IN  {[churn_probability10 |-> churn10,
          revenue_at_risk |-> rev,
          retention_score10 |-> 1000 - churn10,
          recommendation |-> IF churn10 > 200
                             THEN "Consider manual review or outreach"
                             ELSE "Decision appropriate"] : rev \in revenues}

\* A call of calculate_churn_impact by any caller.
Estimate(decision_str, risk_score, user_value) ==
    \E result \in calculate_churn_impact(decision_str, risk_score, user_value) :
        churn' = [status |-> "ok", decision |-> decision_str,
                  risk_score |-> risk_score, user_value |-> user_value,
                  result |-> result]

ChurnNext ==
    \E d \in ChurnDecisions, r \in ChurnRisks, v \in UserValues :
        Estimate(d, r, v)
        /\ UNCHANGED <<seqVars, concVars, agg, expl, first, pred, auditVars, wr, thresholds>>

SpecChurn == Init /\ [][ChurnNext]_vars

\* C14: for REVIEW, BLOCK and CRITICAL_FRAUD the estimate has
\* churnProbability = min(0.5, finalRisk / 100 * 0.5) and revenueAtRisk =
\* churnProbability * userValue; estimate(BLOCK, 100, 1000) gives 0.5 and 500.
C14_DeclineChurn ==
    (churn.status = "ok" /\ churn.decision \in {"REVIEW", "BLOCK", "CRITICAL_FRAUD"}) =>
        /\ churn.result.churn_probability10 = Min(500, 5 * churn.risk_score)
        /\ churn.result.revenue_at_risk \in
               RoundDiv(Min(500, 5 * churn.risk_score) * churn.user_value, 1000)
        /\ (churn.decision = "BLOCK" /\ churn.risk_score = 100
               /\ churn.user_value = 1000)
              => (churn.result.churn_probability10 = 500
                  /\ churn.result.revenue_at_risk = 500)

-----------------------------------------------------------------------------
(* ml_engine.py: ContinuousMLEngine.predict.  Probabilities are integers in
   ten-thousandths as the model gives them and in thousandths as returned. *)

\* What self.model.predict_proba(X)[0][1] does on a call: it raises, or it
\* gives a number.  The model is whatever joblib loaded from the model file.
ModelProbs   == {125 * i - 2500 : i \in 0..120}
ModelOutputs ==
    {[raises |-> TRUE, p |-> 0]} \cup {[raises |-> FALSE, p |-> x] : x \in ModelProbs}

\* Feature rows passed to predict.
Features == {[amount |-> 100, velocity |-> 0], [amount |-> 50000, velocity |-> 10]}

\* round(float(risk_score), 3)
Round3(x) == RoundDiv(x, 10)

\* The except branch and the untrained branch: "APPROVE", 0.1
ConservativeDefault == [label |-> "APPROVE", probability |-> 100]

\* predict(features): the (decision, probability) pairs it can return
predict(is_trained, out) ==
    IF ~is_trained THEN {ConservativeDefault}
    ELSE IF out.raises THEN {ConservativeDefault}
    ELSE {[label |-> IF out.p > 7500 THEN "BLOCK"
                     ELSE IF out.p > 4500 THEN "REVIEW"
                     ELSE "APPROVE",
           probability |-> q] : q \in Round3(out.p)}

\* A call engine.predict(features) on the constructed engine.
Predict(features, out) ==
    \E result \in predict(pred.is_trained, out) :
        pred' = [is_trained |-> pred.is_trained, status |-> "ok",
                 features |-> features, out |-> out, result |-> result]

PredictNext ==
    \E features \in Features, out \in ModelOutputs :
        Predict(features, out)
        /\ UNCHANGED <<seqVars, concVars, agg, expl, first, churn, auditVars, wr, thresholds>>

SpecPredict == Init /\ [][PredictNext]_vars

\* C18: predict never passes a predictor failure on: when the model call
\* raises or gives a probability outside [0,1] it returns ("APPROVE", 0.1),
\* so every probability it returns lies in [0,1].
C18_PredictDefaults ==
    (pred.status = "ok") =>
        /\ pred.result.probability >= 0
        /\ pred.result.probability <= 1000
        /\ (pred.out.raises \/ pred.out.p < 0 \/ pred.out.p > 10000) =>
               pred.result = ConservativeDefault

-----------------------------------------------------------------------------
(* audit.py and the audit endpoints of main.py, one request at a time *)

\* Longest audit list built.
MaxLog == 2

\* Transactions posted to /simulate, and the final risk the risk functions
\* (risk_engine, not among the sources) return for them.
Transactions == {[amount |-> 100], [amount |-> 9000]}
SimRisks     == {0, 60}

\* Policy updates sent between simulations; a missing field is stored as None.
AuditRequests ==
    {DefaultPolicy, Triple(30, 60, None), Triple(None, 60, 85)}

\* Decisions handed to log_decision by other callers.
LoggedDecisions ==
    {[final_risk |-> 0, action |-> "APPROVED"],
     [final_risk |-> 60, action |-> "BLOCK"]}

\* Bodies posted to /audit.
AuditBodies == {[note |-> "a"], [note |-> "b"]}

\* list.insert(0, x)
list_insert_front(lst, x) == <<x>> \o lst

\* list.append(x)
list_append(lst, x) == Append(lst, x)

\* audit.log_decision(tx, decision): the log after the call
log_decision(log, tx, d) ==
    list_append(log, [transaction |-> tx, decision |-> d])

\* explanation_engine.generate_explanation as main.py calls it, with three
\* arguments.  The module defines the name twice; the later definition, the
\* one bound at import, takes one parameter, so the call raises TypeError.
generate_explanation(tx, final_risk, action) == "TypeError"

\* simulate_transaction with the audit record written before the decision.
simulate_transaction_log_first(tx, fr) ==
    LET action == decide_action(policy, fr)
    IN  /\ Len(AUDIT_LOG) < MaxLog
        /\ AUDIT_LOG' = log_decision(AUDIT_LOG, tx, [final_risk |-> fr, action |-> action])
        /\ sim' = IF action = "TypeError"
                  THEN [status |-> "TypeError", at |-> "decide_action"]
                  ELSE [status |-> "TypeError", at |-> "generate_explanation"]
        /\ op' = "simulate_transaction"
        /\ UNCHANGED <<policy, reply, decision, prev, audit_logs, listed>>

\* main.py simulate_transaction: risk, decide_action, generate_explanation,
\* Decision(...), log_decision, return.  An exception ends the handler where
\* it is raised.
simulate_transaction(tx, fr) ==
    LET action      == decide_action(policy, fr)
        explanation == generate_explanation(tx, fr, action)
        d           == [final_risk |-> fr, action |-> action,
                        explanation |-> explanation]
    IN  /\ Len(AUDIT_LOG) < MaxLog
        /\ IF action = "TypeError"
           THEN /\ sim' = [status |-> "TypeError", at |-> "decide_action"]
                /\ UNCHANGED AUDIT_LOG
           ELSE IF explanation = "TypeError"
           THEN /\ sim' = [status |-> "TypeError", at |-> "generate_explanation"]
                /\ UNCHANGED AUDIT_LOG
           ELSE /\ sim' = [status |-> "ok", at |-> "return", transaction |-> tx,
                           decision |-> d]
                /\ AUDIT_LOG' = log_decision(AUDIT_LOG, tx, d)
        /\ op' = "simulate_transaction"
        /\ UNCHANGED <<policy, reply, decision, prev, audit_logs, listed>>

\* A call audit.log_decision(tx, decision) by any other caller.
LogDecision(tx, d) ==
    /\ Len(AUDIT_LOG) < MaxLog
    /\ AUDIT_LOG' = log_decision(AUDIT_LOG, tx, d)
    /\ op' = "log_decision"
    /\ UNCHANGED <<policy, reply, decision, prev, audit_logs, sim, listed>>

\* main.py save_audit (POST /audit)
save_audit(data) ==
    /\ Len(audit_logs) < MaxLog
    /\ audit_logs' = list_append(audit_logs, data)
    /\ reply' = [message |-> "Audit saved successfully",
                 total_logs |-> Len(audit_logs')]
    /\ op' = "save_audit"
    /\ UNCHANGED <<policy, decision, prev, AUDIT_LOG, sim, listed>>

\* main.py view_audit_log (GET /audit): returns main.audit_logs
view_audit_log ==
    /\ listed' = [listed EXCEPT !.main = audit_logs]
    /\ op' = "view_audit_log"
    /\ UNCHANGED <<policy, reply, decision, prev, AUDIT_LOG, audit_logs, sim>>

\* audit.get_audit_log(): returns audit.AUDIT_LOG
get_audit_log ==
    /\ listed' = [listed EXCEPT !.audit = AUDIT_LOG]
    /\ op' = "get_audit_log"
    /\ UNCHANGED <<policy, reply, decision, prev, AUDIT_LOG, audit_logs, sim>>

AuditNext ==
    \/ \E data \in AuditRequests :
          change_policy(data)
          /\ UNCHANGED <<concVars, agg, expl, first, churn, pred, auditVars, wr, thresholds>>
    \/ \E tx \in Transactions, fr \in SimRisks :
          simulate_transaction(tx, fr)
          /\ UNCHANGED <<concVars, agg, expl, first, churn, pred, wr, thresholds>>
    \/ \E tx \in Transactions, d \in LoggedDecisions :
          LogDecision(tx, d)
          /\ UNCHANGED <<concVars, agg, expl, first, churn, pred, wr, thresholds>>
    \/ \E data \in AuditBodies :
          save_audit(data)
          /\ UNCHANGED <<concVars, agg, expl, first, churn, pred, wr, thresholds>>
    \/ view_audit_log
          /\ UNCHANGED <<concVars, agg, expl, first, churn, pred, wr, thresholds>>
    \/ get_audit_log
          /\ UNCHANGED <<concVars, agg, expl, first, churn, pred, wr, thresholds>>

SpecAudit == Init /\ [][AuditNext]_vars

IsPrefix(a, b) == Len(a) <= Len(b) /\ SubSeq(b, 1, Len(a)) = a

\* C15: every completed decision leaves exactly one audit record and the
\* audit list query returns it: what GET /audit returns is the sequence of
\* (transaction, decision) pairs recorded so far, in order.
C15_DecisionsListed ==
    /\ (op = "simulate_transaction" /\ sim.status = "ok") =>
           (AUDIT_LOG # <<>>
            /\ AUDIT_LOG[Len(AUDIT_LOG)] =
                  [transaction |-> sim.transaction, decision |-> sim.decision])
    /\ (op = "view_audit_log") => listed.main = AUDIT_LOG
    /\ (op = "get_audit_log") => listed.audit = AUDIT_LOG

\* C16: the audit lists only grow at the end: each list is a prefix of its
\* next value, and each GET /audit result a prefix of the next result.
C16_AppendOnly ==
    [][/\ IsPrefix(AUDIT_LOG, AUDIT_LOG')
       /\ IsPrefix(audit_logs, audit_logs')
       /\ IsPrefix(listed.main, listed'.main)
       /\ IsPrefix(listed.audit, listed'.audit)]_vars

\* Both lists have been returned with two records each, after having been
\* returned with fewer.
C16_Witness ==
    /\ Len(listed.main) = 2
    /\ Len(listed.audit) = 2
    /\ listed.main[1] # listed.main[2]
    /\ listed.audit[1] # listed.audit[2]

\* C19: when the thresholds cannot be read while /simulate decides, the
\* request fails, no Decision is produced and the audit lists stay as they
\* were; /simulate appends a record only with the decision it returns.
C19_NoPartialAudit ==
    [][(op' = "simulate_transaction") =>
          /\ (sim'.status # "ok") =>
                 (AUDIT_LOG' = AUDIT_LOG /\ audit_logs' = audit_logs)
          /\ (decide_action(policy, 0) = "TypeError") => sim'.status = "TypeError"
          /\ (AUDIT_LOG' # AUDIT_LOG) =>
                 (sim'.status = "ok"
                  /\ AUDIT_LOG' = Append(AUDIT_LOG,
                        [transaction |-> sim'.transaction,
                         decision |-> sim'.decision]))]_vars

\* /simulate has failed in decide_action on an unreadable threshold, with
\* records already in the log.
C19_Witness ==
    /\ op = "simulate_transaction"
    /\ sim.status = "TypeError"
    /\ sim.at = "decide_action"
    /\ ~AllNum(policy)
    /\ AUDIT_LOG # <<>>

-----------------------------------------------------------------------------
(* The audit lists under concurrent request threads.  Sync handlers run in a
   thread pool; list.append and len are each one atomic call on the list. *)

\* Writes per thread.
MaxWrites == 2

\* The k-th record writer w appends through log_decision.
LogRecordTx(w, k) == [amount |-> 100, writer |-> w, seq |-> k]
LogRecordDecision == [final_risk |-> 0, action |-> "APPROVED"]

\* The k-th body writer w posts to /audit.
SaveBody(w, k) == [note |-> "a", writer |-> w, seq |-> k]

\* log_decision: tx.dict() and decision.dict() are evaluated into the dict
LogBuild(w) ==
    /\ wr[w].pc = "idle"
    /\ wr[w].n < MaxWrites
    /\ wr' = [wr EXCEPT ![w].pc = "built"]
    /\ UNCHANGED <<AUDIT_LOG, audit_logs>>

\* log_decision storing its record over the newest entry.
LogAppendOverLast(w) ==
    /\ wr[w].pc = "built"
    /\ AUDIT_LOG' =
          SubSeq(AUDIT_LOG, 1, Len(AUDIT_LOG) - 1)
            \o <<[transaction |-> LogRecordTx(w, wr[w].n + 1),
                  decision |-> LogRecordDecision]>>
    /\ wr' = [wr EXCEPT ![w].pc = "idle", ![w].n = @ + 1]
    /\ UNCHANGED audit_logs

\* log_decision: AUDIT_LOG.append(...) and return
LogAppend(w) ==
    /\ wr[w].pc = "built"
    /\ AUDIT_LOG' =
          log_decision(AUDIT_LOG, LogRecordTx(w, wr[w].n + 1), LogRecordDecision)
    /\ wr' = [wr EXCEPT ![w].pc = "idle", ![w].n = @ + 1]
    /\ UNCHANGED audit_logs

\* save_audit: audit_logs.append(data)
SaveAppend(w) ==
    /\ wr[w].pc = "idle"
    /\ wr[w].n < MaxWrites
    /\ audit_logs' = list_append(audit_logs, SaveBody(w, wr[w].n + 1))
    /\ wr' = [wr EXCEPT ![w].pc = "appended", ![w].n = @ + 1]
    /\ UNCHANGED AUDIT_LOG

\* save_audit: len(audit_logs) for the reply, and return
SaveReply(w) ==
    /\ wr[w].pc = "appended"
    /\ wr' = [wr EXCEPT ![w].pc = "idle", ![w].total = Len(audit_logs)]
    /\ UNCHANGED <<AUDIT_LOG, audit_logs>>

WritersNext ==
    \/ \E w \in LogWriters :
          LogBuild(w)
          /\ UNCHANGED <<seqVars, concVars, agg, expl, first, churn, pred, sim, listed, thresholds>>
    \/ \E w \in LogWriters :
          LogAppend(w)
          /\ UNCHANGED <<seqVars, concVars, agg, expl, first, churn, pred, sim, listed, thresholds>>
    \/ \E w \in SaveWriters :
          SaveAppend(w)
          /\ UNCHANGED <<seqVars, concVars, agg, expl, first, churn, pred, sim, listed, thresholds>>
    \/ \E w \in SaveWriters :
          SaveReply(w)
          /\ UNCHANGED <<seqVars, concVars, agg, expl, first, churn, pred, sim, listed, thresholds>>

SpecWriters == Init /\ [][WritersNext]_vars

\* The records of writer w in a list, in list order.
ByWriterLog(w)  == SelectSeq(AUDIT_LOG, LAMBDA r : r.transaction.writer = w)
ByWriterSave(w) == SelectSeq(audit_logs, LAMBDA r : r.writer = w)

\* C17: with several threads appending, each list holds exactly the records
\* appended so far, each once, and the records of one writer are in the
\* order that writer appended them.
C17_ConcurrentAppend ==
    /\ \A w \in LogWriters :
          ByWriterLog(w) =
            [k \in 1..wr[w].n |->
               [transaction |-> LogRecordTx(w, k), decision |-> LogRecordDecision]]
    /\ \A w \in SaveWriters :
          ByWriterSave(w) = [k \in 1..wr[w].n |-> SaveBody(w, k)]
    /\ Len(AUDIT_LOG) = wr[1].n + wr[2].n
    /\ Len(audit_logs) = wr[3].n + wr[4].n

\* Two threads have appended in turns to each list, and one POST /audit
\* reply counts a record another thread appended meanwhile.
C17_Witness ==
    /\ Len(AUDIT_LOG) = 4
    /\ AUDIT_LOG[1].transaction.writer # AUDIT_LOG[2].transaction.writer
    /\ AUDIT_LOG[2].transaction.writer # AUDIT_LOG[3].transaction.writer
    /\ Len(audit_logs) = 4
    /\ audit_logs[1].writer # audit_logs[2].writer
    /\ audit_logs[4].writer = 4
    /\ wr[3].pc = "idle" /\ wr[3].n = 2 /\ wr[3].total = 4

-----------------------------------------------------------------------------
(* The core operations called in any order between changes of the stores *)

\* update_policy storing both arguments whatever they are.
decision_engine_update_policy_both(th, block_threshold, review_threshold) ==
    [BLOCK_THRESHOLD |-> block_threshold, REVIEW_THRESHOLD |-> review_threshold]

\* decision_engine.update_policy(block_threshold, review_threshold): the
\* thresholds stored after the call
decision_engine_update_policy(th, block_threshold, review_threshold) ==
    [BLOCK_THRESHOLD  |-> IF block_threshold # None THEN block_threshold
                          ELSE th.BLOCK_THRESHOLD,
     REVIEW_THRESHOLD |-> IF review_threshold # None THEN review_threshold
                          ELSE th.REVIEW_THRESHOLD]

\* make_decision testing the fraud pattern before the thresholds.
make_decision_fraud_first(th, score) ==
    IF score >= 90 THEN "FRAUD"
    ELSE IF score >= th.BLOCK_THRESHOLD THEN "BLOCK"
    ELSE IF score >= th.REVIEW_THRESHOLD THEN "REVIEW"
    ELSE "APPROVED"

\* decision_engine.make_decision(score): the label of the returned pair
make_decision(th, score) ==
    IF score >= th.BLOCK_THRESHOLD THEN "BLOCK"
    ELSE IF score >= th.REVIEW_THRESHOLD THEN "REVIEW"
    ELSE IF score >= 90 THEN "FRAUD"
    ELSE "APPROVED"

\* Inputs of the calls.
CoreRequests   == {DefaultPolicy, Triple(30, 60, None)}
CoreThresholds == {None, 70}
CoreRisks      == {60}
CoreTxnRisks   == {0, 7500}
CoreDecisions  == {"DECLINED", "BLOCK"}
CoreCalls ==
    {Call([amount |-> 1000], r,
          [amount |-> 10, location |-> 11, behavior |-> 9, merchant |-> 6,
           velocity |-> 4],
          <<1000, 0>>) : r \in {40, 85}}

CoreInit ==
    /\ InitStore
    /\ expl \in CoreCalls

\* A call decision_engine.update_policy(block, review) by any caller.
\* reply keeps the arguments of the call and the dict it returned.
UpdateThresholds(block, review) ==
    /\ thresholds' = decision_engine_update_policy(thresholds, block, review)
    /\ reply' = [call |-> [block_threshold |-> block, review_threshold |-> review],
                 returned |-> [block_threshold |-> thresholds'.BLOCK_THRESHOLD,
                               review_threshold |-> thresholds'.REVIEW_THRESHOLD]]
    /\ op' = "decision_engine.update_policy"
    /\ UNCHANGED <<policy, decision, prev>>

\* A call make_decision(score) by any caller.
MakeDecision(score) ==
    /\ decision' = [final_risk |-> score,
                    action |-> make_decision(thresholds, score)]
    /\ prev' = NoDecision
    /\ op' = "make_decision"
    /\ UNCHANGED <<policy, reply, thresholds>>

CoreNext ==
    \/ \E data \in CoreRequests :
          change_policy(data)
          /\ UNCHANGED <<concVars, agg, expl, first, churn, pred, auditVars, wr, thresholds>>
    \/ \E block \in CoreThresholds :
          UpdateThresholds(block, None)
          /\ UNCHANGED <<concVars, agg, expl, first, churn, pred, auditVars, wr>>
    \/ LogDecision([amount |-> 100], [final_risk |-> 0, action |-> "APPROVED"])
          /\ UNCHANGED <<concVars, agg, expl, first, churn, pred, wr, thresholds>>
    \/ \E t \in CoreTxnRisks :
          Aggregate(t, 0, 10000)
          /\ op' = "calculate_final_risk"
          /\ UNCHANGED <<policy, reply, decision, prev, concVars, expl, first,
                         churn, pred, auditVars, wr, thresholds>>
    \/ \E r \in CoreRisks :
          Decide(r)
          /\ UNCHANGED <<concVars, agg, expl, first, churn, pred, auditVars, wr, thresholds>>
    \/ \E score \in CoreRisks :
          MakeDecision(score)
          /\ UNCHANGED <<concVars, agg, expl, first, churn, pred, auditVars, wr>>
    \/ generate_counterfactuals
          /\ UNCHANGED <<concVars, agg, churn, pred, auditVars, wr, thresholds>>
    \/ call_again
          /\ UNCHANGED <<concVars, agg, churn, pred, auditVars, wr, thresholds>>
    \/ \E d \in CoreDecisions :
          Estimate(d, 40, 1000)
          /\ op' = "calculate_churn_impact"
          /\ UNCHANGED <<policy, reply, decision, prev, concVars, agg, expl,
                         first, pred, auditVars, wr, thresholds>>

SpecCore == CoreInit /\ [][CoreNext]_vars

\* decision_engine on its own: threshold updates and decisions in any order.
EngineThresholds == {None, 50, 80, 95, 100}
EngineScores     == {0, 50, 85, 90, 92, 95, 100}

EngineNext ==
    \/ \E block \in EngineThresholds, review \in EngineThresholds :
          UpdateThresholds(block, review)
          /\ UNCHANGED <<concVars, agg, expl, first, churn, pred, auditVars, wr>>
    \/ \E score \in EngineScores :
          MakeDecision(score)
          /\ UNCHANGED <<concVars, agg, expl, first, churn, pred, auditVars, wr>>

SpecEngine == Init /\ [][EngineNext]_vars

CoreOps ==
    {"calculate_final_risk", "decide_action", "make_decision",
     "generate_counterfactuals", "calculate_churn_impact"}

\* C20: aggregate, decide, explain and estimate are side-effect free: a call
\* of any of them leaves both threshold stores and both audit lists as they
\* were, and generate_counterfactuals leaves the transaction, the risk
\* breakdown and the history it was given as they were.
C20_CoreFrame ==
    [][(op' \in CoreOps) =>
          /\ policy' = policy
          /\ thresholds' = thresholds
          /\ AUDIT_LOG' = AUDIT_LOG
          /\ audit_logs' = audit_logs
          /\ (op' = "generate_counterfactuals") =>
                 /\ expl'.transaction = expl.transaction
                 /\ expl'.risk_score = expl.risk_score
                 /\ expl'.risk_breakdown = expl.risk_breakdown
                 /\ expl'.user_history = expl.user_history]_vars

\* generate_counterfactuals has returned on a history of two different
\* amounts, with changed thresholds in both stores and a record in the log.
C20_Witness ==
    /\ op = "generate_counterfactuals"
    /\ expl.status = "ok"
    /\ expl.user_history = <<1000, 0>>
    /\ policy # DefaultPolicy
    /\ thresholds.BLOCK_THRESHOLD = 70
    /\ AUDIT_LOG # <<>>
    /\ agg.status = "ok" /\ churn.status = "ok" /\ decision.action = "REVIEW"

-----------------------------------------------------------------------------
(* Properties of the explanations *)

Types(lst) == [i \in DOMAIN lst |-> lst[i].type]

Returned(branch) == expl.status = "ok" /\ expl.branch = branch

\* C11: on the decline branch the customer explanation is the suggestions
\* for amount risk > 5, location risk > 10, behavior risk > 8, in that order,
\* cut to the first 2; with none it is the single 'contact support' entry.
\* It has 1 or 2 entries, and the breakdown {amount: 10, others 0} gives the
\* single entry titled 'Reduce Transaction Amount'.
C11_CustomerSuggestions ==
    Returned("decline") =>
        LET rb == expl.risk_breakdown
            mentioned(t) == CASE t = "amount"   -> rb.amount > 5
                              [] t = "location" -> rb.location > 10
                              [] t = "behavior" -> rb.behavior > 8
            q == SelectSeq(<<"amount", "location", "behavior">>, mentioned)
        IN  /\ Types(expl.customer) =
                   IF q = <<>> THEN <<"contact">>
                   ELSE IF Len(q) > 2 THEN SubSeq(q, 1, 2) ELSE q
            /\ Len(expl.customer) \in {1, 2}
            /\ \A i \in DOMAIN expl.customer :
                   expl.customer[i].title =
                       CASE expl.customer[i].type = "amount" -> "Reduce Transaction Amount"
                         [] expl.customer[i].type = "location" -> "Check Your Connection"
                         [] expl.customer[i].type = "behavior" -> "Use a Familiar Device"
                         [] expl.customer[i].type = "contact" -> "Contact Support"
            /\ (rb = [amount |-> 10, location |-> 0, behavior |-> 0,
                      merchant |-> 0, velocity |-> 0])
                  => (Len(expl.customer) = 1
                      /\ expl.customer[1].type = "amount"
                      /\ expl.customer[1].title = "Reduce Transaction Amount")

\* Location risk between the bank's and the customer's threshold: only the
\* amount suggestion is returned.
C11_Witness ==
    /\ Returned("decline")
    /\ expl.risk_breakdown.amount = 10
    /\ expl.risk_breakdown.location = 6
    /\ expl.risk_breakdown.behavior = 0
    /\ Len(expl.customer) = 1

\* C12: on the decline branch the bank explanation holds one counterfactual
\* per category above its threshold (amount > 5, location > 5, behavior > 5,
\* merchant > 5, velocity > 3), in the order amount, location, behavior,
\* merchant, velocity whatever the magnitudes, cut to the first 4.
C12_BankCounterfactuals ==
    Returned("decline") =>
        LET rb == expl.risk_breakdown
            mentioned(t) == CASE t = "amount"   -> rb.amount > 5
                              [] t = "location" -> rb.location > 5
                              [] t = "behavior" -> rb.behavior > 5
                              [] t = "merchant" -> rb.merchant > 5
                              [] t = "velocity" -> rb.velocity > 3
            q == SelectSeq(<<"amount", "location", "behavior", "merchant",
                             "velocity">>, mentioned)
        IN  Types(expl.bank) = IF Len(q) > 4 THEN SubSeq(q, 1, 4) ELSE q

\* All five categories are above their thresholds, location above amount:
\* four entries are returned, amount first, velocity dropped.
C12_Witness ==
    /\ Returned("decline")
    /\ expl.risk_breakdown.amount = 10
    /\ expl.risk_breakdown.location = 11
    /\ expl.risk_breakdown.behavior > 5
    /\ expl.risk_breakdown.merchant > 5
    /\ expl.risk_breakdown.velocity > 3
    /\ Types(expl.bank) = <<"amount", "location", "behavior", "merchant">>

\* C13: two calls of generate_counterfactuals with identical transaction,
\* risk score, risk breakdown and user history return identical customer and
\* bank explanations, whatever policy updates ran between them.
C13_ExplainDeterministic ==
    (first.status # "none" /\ expl.status # "call") =>
        /\ expl.status = first.status
        /\ expl.customer = first.customer
        /\ expl.bank = first.bank

\* The second of two identical calls has returned a decline explanation, in
\* a run with a policy update.
C13_Witness ==
    /\ first.status = "ok"
    /\ Returned("decline")
    /\ expl.bank # <<>>
    /\ op = "generate_counterfactuals"
    /\ policy # DefaultPolicy

-----------------------------------------------------------------------------
(* Properties of the policy store and of decide_action *)

Ordered(p) ==
    /\ AllNum(p)
    /\ p.low_threshold <= p.review_threshold
    /\ p.review_threshold <= p.block_threshold

Valid(p) ==
    /\ Ordered(p)
    /\ 0 <= p.low_threshold
    /\ p.block_threshold <= 100

Severity(action) ==
    CASE action = "APPROVED"       -> 0
      [] action = "REVIEW"         -> 1
      [] action = "BLOCK"          -> 2
      [] action = "CRITICAL_FRAUD" -> 3

\* C1: in every reachable state the stored thresholds satisfy
\* 0 <= low <= review <= block <= 100.
C1_ThresholdsOrdered == Valid(policy)

\* C2: a policy update whose triple breaks low <= review <= block or leaves
\* [0,100] answers InvalidPolicy and leaves the stored thresholds as they were.
C2_InvalidUpdateRejected ==
    [][(op' = "change_policy" /\ ~Valid(reply'.policy))
          => (reply'.message = "InvalidPolicy" /\ policy' = policy)]_vars

\* C5: under a stored triple with low <= review <= block, decide_action
\* returns CRITICAL_FRAUD for risk >= block, else BLOCK for risk >= review,
\* else REVIEW for risk >= low, else APPROVED; a score equal to a threshold
\* falls in the higher bucket.
C5_DecideMapping ==
    (op = "decide_action" /\ Ordered(policy)) =>
        LET r == decision.final_risk
            a == decision.action
        IN  /\ (r >= policy.block_threshold) => a = "CRITICAL_FRAUD"
            /\ (r < policy.block_threshold /\ r >= policy.review_threshold)
                  => a = "BLOCK"
            /\ (r < policy.review_threshold /\ r >= policy.low_threshold)
                  => a = "REVIEW"
            /\ (r < policy.low_threshold) => a = "APPROVED"
            /\ (r = policy.low_threshold) => a \in {"REVIEW", "BLOCK", "CRITICAL_FRAUD"}
            /\ (r = policy.review_threshold) => a \in {"BLOCK", "CRITICAL_FRAUD"}

\* A score equal to the review threshold, strictly between low and block,
\* has been decided.
C5_Witness ==
    /\ op = "decide_action"
    /\ Ordered(policy)
    /\ policy.low_threshold < policy.review_threshold
    /\ policy.review_threshold < policy.block_threshold
    /\ decision.final_risk = policy.review_threshold
    /\ decision.action = "BLOCK"

\* C6: under a fixed ordered policy, of two decided scores the larger one
\* gets an action at least as severe as the smaller one.
C6_DecideMonotonic ==
    (op = "decide_action" /\ prev # NoDecision /\ Ordered(policy)) =>
        /\ (prev.final_risk <= decision.final_risk
              => Severity(prev.action) <= Severity(decision.action))
        /\ (decision.final_risk <= prev.final_risk
              => Severity(decision.action) <= Severity(prev.action))

\* Two scores decided in a row under one ordered policy, in different buckets.
C6_Witness ==
    /\ op = "decide_action"
    /\ prev # NoDecision
    /\ Ordered(policy)
    /\ prev.final_risk < decision.final_risk
    /\ prev.action = "REVIEW"
    /\ decision.action = "BLOCK"

\* C7: with the startup thresholds in force (no update applied), deciding
\* finalRisk = 85 returns CRITICAL_FRAUD.
C7_Default85Critical ==
    (op = "decide_action" /\ reply.message = "none" /\ decision.final_risk = 85)
        => decision.action = "CRITICAL_FRAUD"

\* 85 has been decided before any policy update.
C7_Witness ==
    /\ op = "decide_action"
    /\ reply.message = "none"
    /\ decision.final_risk = 85

\* C21: after any sequence of policy updates, also ones that omit a field,
\* decide_action on a risk in [0,100] returns one of the four actions and
\* does not fail.
C21_DecideTotal ==
    (op = "decide_action" /\ 0 <= decision.final_risk /\ decision.final_risk <= 100) =>
        decision.action \in {"APPROVED", "REVIEW", "BLOCK", "CRITICAL_FRAUD"}

\* C22: the confidence of the approval-branch bank explanation is a
\* percentage within [0,100].
C22_ConfidenceInRange ==
    (expl.status = "ok" /\ expl.branch = "approval") =>
        (expl.bank[1].confidence >= 0 /\ expl.bank[1].confidence <= 100)

\* The decay factor of a category, in tenths.
DecayTenths(type) ==
    CASE type = "amount" -> 7
      [] type = "location" -> 8
      [] type = "behavior" -> 6
      [] type = "merchant" -> 6
      [] type = "velocity" -> 5

\* C23: each bank decline counterfactual reports impact = category risk times
\* the decay factor of its category (0.7, 0.8, 0.6, 0.6, 0.5) and a
\* post-change score max(0, risk_score - impact), which is never negative and
\* never above risk_score.
C23_ImpactAndPostScore ==
    (expl.status = "ok" /\ expl.branch = "decline") =>
        \A i \in DOMAIN expl.bank :
            LET e    == expl.bank[i]
                risk == expl.risk_breakdown[e.type]
            IN  /\ DecayTenths(e.type) \in 5..8
                /\ e.impact10 = risk * DecayTenths(e.type)
                /\ e.from10 = expl.risk_score * 10
                /\ e.to10 = Max(0, e.from10 - e.impact10)
                /\ 0 <= e.to10
                /\ e.to10 <= expl.risk_score * 10

\* A bank counterfactual has been returned whose impact exceeds the risk
\* score, next to one whose impact is below it.
C23_Witness ==
    /\ expl.status = "ok" /\ expl.branch = "decline"
    /\ Len(expl.bank) = 4
    /\ expl.bank[1].impact10 > expl.bank[1].from10
    /\ expl.bank[1].to10 = 0
    /\ expl.bank[2].type = "location"
    /\ expl.bank[2].to10 = 400

\* The last ten entries of a history, and the positive ones among them.
LastTen(h)         == [i \in 1..Min(10, Len(h)) |-> h[Len(h) - Min(10, Len(h)) + i]]
PositiveLastTen(h) == SelectSeq(LastTen(h), LAMBDA x : x > 0)

\* The optimal amount o (a fraction) equals a / b.
OptimalIs(o, a, b) == o.num * b = a * o.den

AmountEntryReturned ==
    /\ expl.status = "ok" /\ expl.branch = "decline"
    /\ expl.bank # <<>>
    /\ expl.bank[1].type = "amount"

\* C24: the optimal amount is 1.5 times the mean of the last 10 historical
\* amounts, 0.5 times the current amount when the history is empty, and 0.6
\* times the current amount when the last 10 amounts are all zero.
C24_OptimalAmount ==
    AmountEntryReturned =>
        LET h == expl.user_history
            o == expl.bank[1].optimal_amount
            c == expl.transaction.amount
        IN  IF h = <<>> THEN OptimalIs(o, 5 * c, 10)
            ELSE IF \A i \in DOMAIN LastTen(h) : LastTen(h)[i] = 0
                 THEN OptimalIs(o, 6 * c, 10)
            ELSE OptimalIs(o, 3 * Sum(LastTen(h)), 2 * Len(LastTen(h)))

\* C24, amended: the mean is taken over the positive amounts among the last
\* 10 history entries; 0.6 times the current amount when none of them is
\* positive, 0.5 times the current amount when the history is empty.
C24_OptimalAmountPositive ==
    AmountEntryReturned =>
        LET h == expl.user_history
            o == expl.bank[1].optimal_amount
            c == expl.transaction.amount
        IN  IF h = <<>> THEN OptimalIs(o, 5 * c, 10)
            ELSE IF PositiveLastTen(h) = <<>>
                 THEN OptimalIs(o, 6 * c, 10)
            ELSE OptimalIs(o, 3 * Sum(PositiveLastTen(h)),
                              2 * Len(PositiveLastTen(h)))

\* An optimal amount has been computed on a history of more than ten
\* entries whose oldest entry differs from the rest, with a zero and two
\* different positive amounts among the last ten.
C24_Witness ==
    /\ AmountEntryReturned
    /\ Len(expl.user_history) > 10
    /\ expl.user_history[1] = 3000
    /\ Len(PositiveLastTen(expl.user_history)) = 9
    /\ Sum(PositiveLastTen(expl.user_history)) = 11000

\* C25: make_decision returns FRAUD exactly for 90 <= score < min(BLOCK_THRESHOLD,
\* REVIEW_THRESHOLD); when either threshold is at most 90 no score yields
\* FRAUD and the result is BLOCK, REVIEW or APPROVED.
C25_FraudOnlyAboveThresholds ==
    (op = "make_decision") =>
        LET score == decision.final_risk
            lower == Min(thresholds.BLOCK_THRESHOLD, thresholds.REVIEW_THRESHOLD)
        IN  /\ (decision.action = "FRAUD") <=> (90 <= score /\ score < lower)
            /\ (thresholds.REVIEW_THRESHOLD <= 90 \/ thresholds.BLOCK_THRESHOLD <= 90)
                  => decision.action \in {"BLOCK", "REVIEW", "APPROVED"}

\* A score of at least 90 and below BLOCK_THRESHOLD has been decided with
\* REVIEW_THRESHOLD at most 90.
C25_Witness ==
    /\ op = "make_decision"
    /\ decision.final_risk = 92
    /\ thresholds = [BLOCK_THRESHOLD |-> 95, REVIEW_THRESHOLD |-> 50]
    /\ decision.action = "REVIEW"

\* C26: decision_engine.update_policy changes only the thresholds passed as
\* non-None, stores those, and returns the pair stored after the call.
C26_UpdateOnlyGiven ==
    [][(op' = "decision_engine.update_policy") =>
          LET block  == reply'.call.block_threshold
              review == reply'.call.review_threshold
          IN  /\ thresholds'.BLOCK_THRESHOLD =
                    (IF block = None THEN thresholds.BLOCK_THRESHOLD ELSE block)
              /\ thresholds'.REVIEW_THRESHOLD =
                    (IF review = None THEN thresholds.REVIEW_THRESHOLD ELSE review)
              /\ reply'.returned =
                    [block_threshold |-> thresholds'.BLOCK_THRESHOLD,
                     review_threshold |-> thresholds'.REVIEW_THRESHOLD]]_vars

\* A call giving only block_threshold has left a changed REVIEW_THRESHOLD
\* as it was.
C26_Witness ==
    /\ op = "decision_engine.update_policy"
    /\ reply.call = [block_threshold |-> 95, review_threshold |-> None]
    /\ thresholds = [BLOCK_THRESHOLD |-> 95, REVIEW_THRESHOLD |-> 100]

====
